---- MODULE Spec2Model ----
(***************************************************************************)
(* Model of the statement text segmentation (TransactionExtractor in       *)
(* transaction_extractor.py) and of the spend-by-category aggregation      *)
(* loop (main.py, app.py).                                                 *)
(*                                                                         *)
(* A Python str is a sequence of one-character strings.  Offsets are       *)
(* 0-based as in Python; str.find returns -1 when there is no match.       *)
(***************************************************************************)
EXTENDS Integers, Sequences, FiniteSets, TLC

VARIABLES
    start_marker,             \* self.start_marker
    stop_marker,              \* self.stop_marker
    formatted_start_marker,   \* self.formatted_start_marker
    op,                       \* the method the last finished call ran
    text,                     \* its text argument
    title_pos,                \* extract_transactions' local title_pos
    result,                   \* what the call returned or raised
    calls,                    \* the frames of the calls in progress on the shared instance
    records,                  \* result['transactions'] as (category, amount) pairs
    spend_by_category         \* the dict built by the aggregation loop

vars == <<start_marker, stop_marker, formatted_start_marker, op, text,
          title_pos, result, calls, records, spend_by_category>>

(***************************************************************************)
(* Bounds                                                                  *)
(***************************************************************************)
MaxPieces == 3
MaxMarkerLen == 2
MaxRecords == 3
MaxAmount == 2

(***************************************************************************)
(* Python str primitives                                                   *)
(***************************************************************************)
Whitespace == {" ", "\n"}

\* s[i:] for 0 <= i <= len(s)
SliceFrom(s, i) == SubSeq(s, i + 1, Len(s))

\* s[:j] for 0 <= j <= len(s)
SliceTo(s, j) == SubSeq(s, 1, j)

\* sub occurs in s at 0-based offset i
OccursAt(s, sub, i) ==
    /\ i + Len(sub) <= Len(s)
    /\ \A k \in 1..Len(sub) : s[i + k] = sub[k]

FindLast(s, sub) ==
    IF \E i \in 0..Len(s) : OccursAt(s, sub, i)
    THEN CHOOSE i \in 0..Len(s) :
            /\ OccursAt(s, sub, i)
            /\ \A j \in (i + 1)..Len(s) : ~OccursAt(s, sub, j)
    ELSE -1

\* str.find: the lowest offset at which sub occurs in s, -1 if none
Find(s, sub) ==
    IF \E i \in 0..Len(s) : OccursAt(s, sub, i)
    THEN CHOOSE i \in 0..Len(s) :
            /\ OccursAt(s, sub, i)
            /\ \A j \in 0..(i - 1) : ~OccursAt(s, sub, j)
    ELSE -1

RECURSIVE LStrip(_)
LStrip(s) ==
    IF s # <<>> /\ Head(s) \in Whitespace THEN LStrip(Tail(s)) ELSE s

RECURSIVE RStrip(_)
RStrip(s) ==
    IF s # <<>> /\ s[Len(s)] \in Whitespace
    THEN RStrip(SubSeq(s, 1, Len(s) - 1))
    ELSE s

\* str.strip()
Strip(s) == LStrip(RStrip(s))

(***************************************************************************)
(* TransactionExtractor                                                    *)
(***************************************************************************)
PURCHASE == <<"P", "U", "R", "C", "H", "A", "S", "E">>

StartNotFound    == "Could not find start marker in text"
StopNotFound     == "Could not find stop marker in text"
PurchaseNotFound == "Could not find PURCHASE in text"

Return(v) == [ok |-> TRUE,  value |-> v,    error |-> ""]
Raise(e)  == [ok |-> FALSE, value |-> <<>>, error |-> e]

\* the for loop of _format_start_marker, from character i on
RECURSIVE FormatLoop(_, _, _)
FormatLoop(marker, i, formatted_marker) ==
    IF i > Len(marker) THEN formatted_marker
    ELSE FormatLoop(marker, i + 1,
            IF marker[i] # " "
            THEN formatted_marker \o <<marker[i], marker[i]>>
            ELSE formatted_marker \o <<marker[i]>>)

DoubleEveryChar(marker) ==
    [k \in 1..(2 * Len(marker)) |-> marker[(k + 1) \div 2]]

_format_start_marker(marker) == FormatLoop(marker, 1, <<>>)

extract_transactions_unformatted(t) ==
    LET pos == Find(t, start_marker) IN
    IF pos = -1 THEN Raise(StartNotFound)
    ELSE LET text_after_start == SliceFrom(t, pos)
             stop == Find(text_after_start, stop_marker)
         IN  IF stop = -1 THEN Raise(StopNotFound)
             ELSE Return(Strip(SliceTo(text_after_start, stop)))

extract_transactions_stop_anywhere(t) ==
    LET pos == Find(t, formatted_start_marker) IN
    IF pos = -1 THEN Raise(StartNotFound)
    ELSE LET text_after_start == SliceFrom(t, pos)
             stop == Find(t, stop_marker)
         IN  IF stop = -1 THEN Raise(StopNotFound)
             ELSE Return(Strip(SliceTo(text_after_start, stop)))

\* extract_transactions(self, text): what it returns or raises
extract_transactions(t) ==
    LET pos == Find(t, formatted_start_marker) IN
    IF pos = -1 THEN Raise(StartNotFound)
    ELSE LET text_after_start == SliceFrom(t, pos)
             stop == Find(text_after_start, stop_marker)
         IN  IF stop = -1 THEN Raise(StopNotFound)
             ELSE Return(Strip(SliceTo(text_after_start, stop)))

extract_purchases_rfind(t) ==
    LET all_transactions == extract_transactions(t) IN
    IF ~all_transactions.ok THEN all_transactions
    ELSE LET pos == FindLast(all_transactions.value, PURCHASE) IN
         IF pos = -1 THEN Raise(PurchaseNotFound)
         ELSE Return(SliceFrom(all_transactions.value, pos))

\* extract_purchases(self, text): what it returns or raises
extract_purchases(t) ==
    LET all_transactions == extract_transactions(t) IN
    IF ~all_transactions.ok THEN all_transactions
    ELSE LET pos == Find(all_transactions.value, PURCHASE) IN
         IF pos = -1 THEN Raise(PurchaseNotFound)
         ELSE Return(SliceFrom(all_transactions.value, pos))

(***************************************************************************)
(* Inputs                                                                  *)
(***************************************************************************)
RECURSIVE SeqsUpTo(_, _)
SeqsUpTo(S, n) ==
    IF n = 0 THEN {<<>>}
    ELSE LET shorter == SeqsUpTo(S, n - 1)
         IN  shorter \cup {Append(s, c) : s \in shorter, c \in S}

DefaultStart ==
    <<"A","C","C","O","U","N","T"," ","A","C","T","I","V","I","T","Y">>
DefaultStop ==
    <<"T","o","t","a","l","s"," ","Y","e","a","r","-","t","o","-","D","a","t","e">>

AB_CD == <<"A", "B", " ", "C", "D">>

MarkerChars == {"A", " "}

StartMarkers ==
    SeqsUpTo(MarkerChars, MaxMarkerLen)
        \cup {<<"P">>, <<"A", " ", "P">>, AB_CD, DefaultStart}

StopMarkers == {<<"T">>, <<"A">>, <<"A", "A">>, <<"P">>, <<>>, DefaultStop}

\* the (start_marker, stop_marker) arguments the constructor is called with
MarkerPairs ==
    (StartMarkers \X {<<"T">>})
        \cup ({<<"A">>, <<"P">>} \X (StopMarkers \ {DefaultStop}))
        \cup {<<DefaultStart, DefaultStop>>}

LowerPurchase == <<"p", "u", "r", "c", "h", "a", "s", "e">>
TwoPurchases  == PURCHASE \o <<"f", "o", "o">> \o PURCHASE \o <<"b", "a", "r">>

\* the fragments statement texts are put together from
Pieces ==
    {<<"A">>, <<"\n">>, PURCHASE, LowerPurchase, Tail(PURCHASE),
     TwoPurchases, start_marker, formatted_start_marker, stop_marker}

RECURSIVE Concats(_, _)
Concats(P, n) ==
    IF n = 0 THEN {<<>>}
    ELSE LET shorter == Concats(P, n - 1)
         IN  shorter \cup {p \o s : p \in P, s \in shorter}

Texts == Concats(Pieces, MaxPieces)

(***************************************************************************)
(* A caller using one extractor, one call at a time                        *)
(***************************************************************************)
Callers == {1, 2}

IdleFrame ==
    [pc |-> "idle", method |-> "none", text |-> <<>>, title_pos |-> -1,
     text_after_start |-> <<>>, all_transactions |-> <<>>,
     ret |-> Return(<<>>)]

NoCalls == [c \in Callers |-> IdleFrame]

EmptyDict == [c \in {} |-> 0]

Init ==
    /\ \E pair \in MarkerPairs :
        /\ start_marker = pair[1]
        /\ stop_marker = pair[2]
        /\ formatted_start_marker = _format_start_marker(pair[1])
    /\ op = "idle"
    /\ text = <<>>
    /\ title_pos = -1
    /\ result = Return(<<>>)
    /\ calls = NoCalls
    /\ records = <<>>
    /\ spend_by_category = EmptyDict

CallExtractTransactions ==
    /\ op = "idle"
    /\ \E t \in Texts :
        /\ text' = t
        /\ title_pos' = Find(t, formatted_start_marker)
        /\ result' = extract_transactions(t)
    /\ op' = "extract_transactions"
    /\ UNCHANGED <<start_marker, stop_marker, formatted_start_marker,
                   calls, records, spend_by_category>>

CallExtractPurchases ==
    /\ op = "idle"
    /\ \E t \in Texts :
        /\ text' = t
        /\ title_pos' = Find(t, formatted_start_marker)
        /\ result' = extract_purchases(t)
    /\ op' = "extract_purchases"
    /\ UNCHANGED <<start_marker, stop_marker, formatted_start_marker,
                   calls, records, spend_by_category>>

\* the caller is done with the outcome and may call again
Discard ==
    /\ op # "idle"
    /\ op' = "idle"
    /\ text' = <<>>
    /\ title_pos' = -1
    /\ result' = Return(<<>>)
    /\ UNCHANGED <<start_marker, stop_marker, formatted_start_marker,
                   calls, records, spend_by_category>>

Next == CallExtractTransactions \/ CallExtractPurchases \/ Discard

Spec == Init /\ [][Next]_vars

(***************************************************************************)
(* Two callers sharing one extractor; a call advances statement by         *)
(* statement, and the statements of the two calls interleave freely        *)
(***************************************************************************)
SharedMarkerPairs == {<<(<<"A">>), (<<"T">>)>>, <<DefaultStart, DefaultStop>>}

SharedTexts ==
    {<<>>,
     formatted_start_marker \o stop_marker,
     formatted_start_marker \o PURCHASE,
     PURCHASE \o stop_marker,
     <<" ">> \o formatted_start_marker \o <<"\n">> \o PURCHASE \o stop_marker,
     stop_marker \o formatted_start_marker \o TwoPurchases \o <<" ">>
        \o stop_marker \o PURCHASE}

InitShared ==
    /\ \E pair \in SharedMarkerPairs :
        /\ start_marker = pair[1]
        /\ stop_marker = pair[2]
        /\ formatted_start_marker = _format_start_marker(pair[1])
    /\ op = "idle"
    /\ text = <<>>
    /\ title_pos = -1
    /\ result = Return(<<>>)
    /\ calls = NoCalls
    /\ records = <<>>
    /\ spend_by_category = EmptyDict

Self == <<start_marker, stop_marker, formatted_start_marker>>

Others == <<op, text, title_pos, result, records, spend_by_category>>

\* caller c enters extract_transactions or extract_purchases
Begin(c) ==
    /\ calls[c].pc = "idle"
    /\ \E m \in {"extract_transactions", "extract_purchases"}, t \in SharedTexts :
        calls' = [calls EXCEPT ![c] =
                    [IdleFrame EXCEPT !.pc = "find_start", !.method = m, !.text = t]]
    /\ UNCHANGED <<Self, Others>>

FindStartAndReformat(c) ==
    /\ calls[c].pc = "find_start"
    /\ LET pos == Find(calls[c].text, formatted_start_marker) IN
        /\ calls' = [calls EXCEPT ![c] =
                IF pos = -1
                THEN [@ EXCEPT !.title_pos = pos, !.pc = "done",
                               !.ret = Raise(StartNotFound)]
                ELSE [@ EXCEPT !.title_pos = pos, !.pc = "find_stop",
                               !.text_after_start = SliceFrom(calls[c].text, pos)]]
        /\ formatted_start_marker' = _format_start_marker(formatted_start_marker)
    /\ UNCHANGED <<start_marker, stop_marker, Others>>

\* title_pos = text.find(...); raise, or text_after_start = text[title_pos:]
FindStart(c) ==
    /\ calls[c].pc = "find_start"
    /\ LET pos == Find(calls[c].text, formatted_start_marker) IN
        calls' = [calls EXCEPT ![c] =
            IF pos = -1
            THEN [@ EXCEPT !.title_pos = pos, !.pc = "done",
                           !.ret = Raise(StartNotFound)]
            ELSE [@ EXCEPT !.title_pos = pos, !.pc = "find_stop",
                           !.text_after_start = SliceFrom(calls[c].text, pos)]]
    /\ UNCHANGED <<Self, Others>>

\* stop_pos = text_after_start.find(...); raise, or return the stripped slice
FindStop(c) ==
    /\ calls[c].pc = "find_stop"
    /\ LET stop == Find(calls[c].text_after_start, stop_marker)
           extracted_text == Strip(SliceTo(calls[c].text_after_start, stop))
       IN  calls' = [calls EXCEPT ![c] =
            IF stop = -1
            THEN [@ EXCEPT !.pc = "done", !.ret = Raise(StopNotFound)]
            ELSE IF calls[c].method = "extract_transactions"
            THEN [@ EXCEPT !.pc = "done", !.ret = Return(extracted_text)]
            ELSE [@ EXCEPT !.pc = "find_purchase",
                           !.all_transactions = extracted_text]]
    /\ UNCHANGED <<Self, Others>>

\* title_pos = all_transactions.find("PURCHASE"); raise, or return the suffix
FindPurchase(c) ==
    /\ calls[c].pc = "find_purchase"
    /\ LET pos == Find(calls[c].all_transactions, PURCHASE) IN
        calls' = [calls EXCEPT ![c] =
            IF pos = -1
            THEN [@ EXCEPT !.pc = "done", !.ret = Raise(PurchaseNotFound)]
            ELSE [@ EXCEPT !.pc = "done",
                    !.ret = Return(SliceFrom(calls[c].all_transactions, pos))]]
    /\ UNCHANGED <<Self, Others>>

\* the call's frame is gone once its caller has the outcome
Finish(c) ==
    /\ calls[c].pc = "done"
    /\ calls' = [calls EXCEPT ![c] = IdleFrame]
    /\ UNCHANGED <<Self, Others>>

NextShared ==
    \E c \in Callers :
        Begin(c) \/ FindStart(c) \/ FindStop(c) \/ FindPurchase(c) \/ Finish(c)

SpecShared == InitShared /\ [][NextShared]_vars

(***************************************************************************)
(* Spend by category (the loop at the end of main and analyze_statement)   *)
(***************************************************************************)
\* two labels of the prompt's taxonomy and one outside it
Categories == {"Food & Dining", "Shopping", "Gifts"}

Amounts == (-1)..MaxAmount

Purchases == [category : Categories, amount : Amounts]

\* dict.get(key, default)
Get(d, key, default) == IF key \in DOMAIN d THEN d[key] ELSE default

\* d[key] = value
Put(d, key, value) ==
    [k \in DOMAIN d \cup {key} |-> IF k = key THEN value ELSE d[k]]

Overwrite(spend, purchase) ==
    Put(spend, purchase.category, purchase.amount)

\* the body of the loop
Accumulate(spend, purchase) ==
    Put(spend, purchase.category,
        Get(spend, purchase.category, 0) + purchase.amount)

\* for purchase in result['transactions'], from the i-th on
RECURSIVE AggregateLoop(_, _, _)
AggregateLoop(transactions, i, spend) ==
    IF i > Len(transactions) THEN spend
    ELSE AggregateLoop(transactions, i + 1, Accumulate(spend, transactions[i]))

InitAgg ==
    /\ start_marker = DefaultStart
    /\ stop_marker = DefaultStop
    /\ formatted_start_marker = _format_start_marker(DefaultStart)
    /\ op = "idle"
    /\ text = <<>>
    /\ title_pos = -1
    /\ result = Return(<<>>)
    /\ calls = NoCalls
    /\ records = <<>>
    /\ spend_by_category = EmptyDict

\* analyze_with_openai returns result['transactions']
AnalyzeWithOpenAI ==
    /\ op = "idle"
    /\ records' \in SeqsUpTo(Purchases, MaxRecords)
    /\ op' = "analyzed"
    /\ UNCHANGED <<Self, text, title_pos, result, calls, spend_by_category>>

\* spend_by_category = {} and the loop over result['transactions']
Aggregate ==
    /\ op = "analyzed"
    /\ spend_by_category' = AggregateLoop(records, 1, EmptyDict)
    /\ op' = "aggregated"
    /\ UNCHANGED <<Self, text, title_pos, result, calls, records>>

NextAgg == AnalyzeWithOpenAI \/ Aggregate

SpecAgg == InitAgg /\ [][NextAgg]_vars

(***************************************************************************)
(* Properties                                                              *)
(***************************************************************************)
\* sub occurs somewhere in s
Occurs(s, sub) == \E i \in 0..Len(s) : OccursAt(s, sub, i)

\* i is the lowest offset at which sub occurs in s
FirstAt(s, sub, i) ==
    /\ OccursAt(s, sub, i)
    /\ \A j \in 0..(i - 1) : ~OccursAt(s, sub, j)

Called == op \in {"extract_transactions", "extract_purchases"}

\* C1: a document filler + encoded start marker + middle + stop marker +
\* trailing filler, whose filler has no encoded start marker and whose middle
\* has no stop marker, makes extract_transactions return exactly the middle,
\* trimmed of whitespace, without the encoded start marker.
RoundTripReturnsMiddle ==
    op = "extract_transactions" =>
        \A i \in 0..Len(text), j \in 0..Len(text) :
            LET filler == SliceTo(text, i)
                middle == SubSeq(text, i + Len(formatted_start_marker) + 1, j)
            IN  (/\ OccursAt(text, formatted_start_marker, i)
                 /\ i + Len(formatted_start_marker) <= j
                 /\ OccursAt(text, stop_marker, j)
                 /\ ~Occurs(filler, formatted_start_marker)
                 /\ ~Occurs(middle, stop_marker))
                => result = Return(Strip(middle))

SpacesIn(m) == Cardinality({k \in 1..Len(m) : m[k] = " "})

NonSpacesBefore(m, i) == Cardinality({k \in 1..(i - 1) : m[k] # " "})

\* C2: formatted_start_marker is, in order, two copies of each non-space
\* character and one space for each space of start_marker, so its length is
\* 2 * non-spaces + spaces; the stop marker is kept and searched for as given.
EncodingDoublesNonSpaces ==
    /\ Len(formatted_start_marker)
            = 2 * (Len(start_marker) - SpacesIn(start_marker)) + SpacesIn(start_marker)
    /\ \A i \in 1..Len(start_marker) :
            LET at == (i - 1) + NonSpacesBefore(start_marker, i) IN
            /\ formatted_start_marker[at + 1] = start_marker[i]
            /\ start_marker[i] # " " => formatted_start_marker[at + 2] = start_marker[i]
    /\ stop_marker \in StopMarkers
    /\ Called =>
        \A i \in 0..Len(text) :
            FirstAt(text, formatted_start_marker, i) =>
                /\ (\E j \in i..Len(text) : OccursAt(text, stop_marker, j))
                        => extract_transactions(text).ok
                /\ (~\E j \in i..Len(text) : OccursAt(text, stop_marker, j))
                        => result = Raise(StopNotFound)

EncodingWitness ==
    /\ SpacesIn(start_marker) >= 1
    /\ Len(start_marker) - SpacesIn(start_marker) >= 2
    /\ op = "extract_transactions"
    /\ result.ok
    /\ Len(stop_marker) > 0

AABB_CCDD   == <<"A", "A", "B", "B", " ", "C", "C", "D", "D">>
AABB__CCDD  == <<"A", "A", "B", "B", " ", " ", "C", "C", "D", "D">>

\* C3 as stated: "AB CD" encodes to "AABB  CCDD", with the space twice, and
\* the search finds the encoded marker where that string begins.
ExampleEncodesSpaceTwice ==
    start_marker = AB_CD =>
        /\ formatted_start_marker = AABB__CCDD
        /\ Called => \A i \in 0..Len(text) :
                        FirstAt(text, AABB__CCDD, i) => title_pos = i

\* C3 amended: "AB CD" encodes to "AABB CCDD", with the space once, and the
\* search finds the encoded marker at the first offset where that string
\* begins in the text.
ExampleEncodesSpaceOnce ==
    start_marker = AB_CD =>
        /\ formatted_start_marker = AABB_CCDD
        /\ Called => \A i \in 0..Len(text) :
                        FirstAt(text, AABB_CCDD, i) => title_pos = i

ExampleWitness ==
    /\ start_marker = AB_CD
    /\ Called
    /\ title_pos > 0
    /\ OccursAt(text, AABB_CCDD, title_pos)
    /\ \E j \in (title_pos + 1)..Len(text) : OccursAt(text, AABB_CCDD, j)

\* C4: a text without the encoded start marker makes extract_transactions
\* raise the start-marker error, whatever else the text holds, and
\* extract_purchases raise that same error and return nothing.
MissingStartRaises ==
    (Called /\ ~Occurs(text, formatted_start_marker)) =>
        /\ result = Raise(StartNotFound)
        /\ extract_transactions(text) = Raise(StartNotFound)
        /\ extract_purchases(text) = extract_transactions(text)
        /\ ~result.ok /\ result.value = <<>>

MissingStartWitness ==
    /\ op = "extract_purchases"
    /\ Len(start_marker) > 0
    /\ Len(stop_marker) > 0
    /\ ~Occurs(text, formatted_start_marker)
    /\ Occurs(text, start_marker)
    /\ Occurs(text, stop_marker)
    /\ Occurs(text, PURCHASE)
    /\ result = Raise(StartNotFound)

\* C5: when the text has the encoded start marker but no stop marker at or
\* after its first occurrence, extract_transactions raises the stop-marker
\* error, which differs from the start-marker error, and returns no text.
MissingStopRaises ==
    op = "extract_transactions" =>
        \A i \in 0..Len(text) :
            (/\ FirstAt(text, formatted_start_marker, i)
             /\ \A j \in i..Len(text) : ~OccursAt(text, stop_marker, j))
            => /\ result = Raise(StopNotFound)
               /\ result.error # StartNotFound
               /\ ~result.ok /\ result.value = <<>>

MissingStopWitness ==
    /\ op = "extract_transactions"
    /\ Len(stop_marker) > 0
    /\ title_pos > 0
    /\ Occurs(SliceTo(text, title_pos), stop_marker)
    /\ result = Raise(StopNotFound)

\* C6: a successful extract_purchases returns the suffix of what
\* extract_transactions returns that starts at the first "PURCHASE", untrimmed;
\* it begins with "PURCHASE", and from "...PURCHASEfooPURCHASEbar" it is
\* "PURCHASEfooPURCHASEbar".
PurchasesFromFirstPurchase ==
    (op = "extract_purchases" /\ result.ok) =>
        LET all == extract_transactions(text) IN
        /\ all.ok
        /\ \E i \in 0..Len(all.value) :
            /\ FirstAt(all.value, PURCHASE, i)
            /\ result.value = SliceFrom(all.value, i)
        /\ SubSeq(result.value, 1, Len(PURCHASE)) = PURCHASE
        /\ \A k \in 0..Len(all.value) :
            (/\ SliceFrom(all.value, k) = TwoPurchases
             /\ ~Occurs(SliceTo(all.value, k + Len(PURCHASE) - 1), PURCHASE))
            => result.value = TwoPurchases

PurchasesWitness ==
    /\ op = "extract_purchases"
    /\ result.ok
    /\ result.value = TwoPurchases
    /\ extract_transactions(text).value # TwoPurchases

\* the text strictly between the start marker found and the stop marker found
SectionBetweenMarkers ==
    LET stop == Find(SliceFrom(text, title_pos), stop_marker)
    IN  SubSeq(text, title_pos + Len(formatted_start_marker) + 1, title_pos + stop)

\* C7: when extract_transactions succeeds on the text, extract_purchases
\* raises the PURCHASE error exactly when "PURCHASE" does not occur in the
\* text between the start marker and the stop marker.
PurchaseErrorIffAbsentFromSection ==
    (op = "extract_purchases" /\ extract_transactions(text).ok) =>
        (result = Raise(PurchaseNotFound)
            <=> ~Occurs(SectionBetweenMarkers, PURCHASE))

\* C9: extract_transactions succeeds only when the stop marker occurs at an
\* offset strictly greater than that of the first encoded start marker.
SuccessNeedsStopAfterStart ==
    (op = "extract_transactions" /\ result.ok) =>
        \E j \in (title_pos + 1)..Len(text) : OccursAt(text, stop_marker, j)

\* the sum of the amounts of the records at the indices in S
RECURSIVE SumAt(_, _)
SumAt(recs, S) ==
    IF S = {} THEN 0
    ELSE LET i == CHOOSE k \in S : TRUE
         IN  recs[i].amount + SumAt(recs, S \ {i})

\* the records in the order p
Permuted(recs, p) == [i \in 1..Len(recs) |-> recs[p[i]]]

Alone(frame) ==
    IF frame.method = "extract_transactions"
    THEN extract_transactions(frame.text)
    ELSE extract_purchases(frame.text)

\* C10: no step of any call on the shared extractor changes start_marker,
\* stop_marker or formatted_start_marker, and every finished call has the
\* outcome its text and the markers alone determine.
CallsLeaveMarkersAlone ==
    /\ [][/\ start_marker' = start_marker
          /\ stop_marker' = stop_marker
          /\ formatted_start_marker' = formatted_start_marker]_vars
    /\ [](/\ formatted_start_marker = _format_start_marker(start_marker)
          /\ \A c \in Callers :
                calls[c].pc = "done" => calls[c].ret = Alone(calls[c]))

SharedWitness ==
    /\ calls[1].pc = "done" /\ calls[1].method = "extract_purchases"
    /\ calls[1].ret.ok
    /\ calls[2].pc = "done" /\ calls[2].method = "extract_transactions"
    /\ ~calls[2].ret.ok
    /\ calls[1].text # calls[2].text

====
